---- MODULE Spec2Model ----
(***************************************************************************)
(* Model of the webhook handler of docker-git-pull (src/server.js).        *)
(*                                                                         *)
(* One handler invocation (handleWebhookRequest) runs per delivery.  The   *)
(* JavaScript of the handlers runs on one thread: a handler runs without   *)
(* interruption by another handler until it awaits a git command or sends  *)
(* its response.  The git commands are child processes: they run truly in  *)
(* parallel with the handlers and with one another, and they read and      *)
(* write the repository directories step by step.                          *)
(*                                                                         *)
(* A delivery is immutable; each header and payload field is drawn when    *)
(* the handler first uses it, and req[r] holds the delivery as far as the  *)
(* handler of r has used it.                                               *)
(***************************************************************************)
EXTENDS Integers, Sequences, FiniteSets, TLC

(***************************************************************************)
(* Bounds of the model.                                                    *)
(***************************************************************************)
MaxRequests == 2

Requests == 1 .. MaxRequests

(***************************************************************************)
(* Values.                                                                 *)
(***************************************************************************)
NoValue == "undefined"

Unread == "unread"

UnreadRef == <<"unread">>

Falsy(v) == v = NoValue \/ v = ""

\* a JSON value that is not a string: a number (truthy)
JsonNumber == "<number 42>"

IsString(v) == v # JsonNumber

Repos == {"app"}

Branches == {"main", "dev"}

SshUrl == "git@host:org/app.git"

Refs == { <<>>,
          <<"refs/heads/">>,
          <<"refs/heads/", "main">>,
          <<"refs/heads/", "dev">>,
          <<"refs/tags/", "v1">>,
          <<JsonNumber>> }

Events == {"push", "issues"}

RawBodies == {"{json}", "garbage"}

SshUrls == {SshUrl, NoValue}

DeclaredBranches == {"dev", NoValue}

Secrets == {"s3cret", "guess"}

(***************************************************************************)
(* Strings the code takes apart are sequences of tokens: a signature is    *)
(* "sha256=" followed by the digest, a ref is its prefix followed by the   *)
(* branch, the output of a command is its text followed by a newline.  An  *)
(* absent header or field of this kind is the empty sequence, which is as  *)
(* falsy as the absent value.                                              *)
(***************************************************************************)
HMAC(secret, body) == <<secret, body>>

Sign(secret, body) == <<"sha256=">> \o HMAC(secret, body)

Signatures(body) ==
  { <<>>, <<"sha256=", "s3cret">>, Sign("s3cret", body), Sign("guess", body) }
    \cup { Sign("s3cret", other) : other \in RawBodies }

(***************************************************************************)
(* The repository directories below REPOS_DIR.  A directory is absent or   *)
(* holds a set of entries; head is the branch its .git has checked out.    *)
(***************************************************************************)
DotGit == <<".", "git">>

DotEnv == <<".", "env">>

Readme == <<"README">>

NoDir == [exists |-> FALSE, files |-> {}, head |-> NoValue]

Dirs ==
  {NoDir}
    \cup [exists : {TRUE}, files : {{}, {DotEnv}, {Readme}}, head : {NoValue}]
    \cup [exists : {TRUE}, files : {{DotGit, Readme}}, head : Branches]

VARIABLES
  config,   \* the loaded webhook-config.json
  fs,       \* fs[n]: the directory REPOS_DIR/n
  pc,       \* pc[r]: where the handler of request r stands
  req,      \* req[r]: the delivery, as far as the handler has used it
  proc,     \* proc[r]: the git child process the handler of r awaits
  log,      \* log[r]: what the handler of r has done so far
  resp      \* resp[r]: the response sent for r

vars == <<config, fs, pc, req, proc, log, resp>>

(***************************************************************************)
(* Repository names and paths (src/server.js 304-308).  A directory is     *)
(* known by its normalised path relative to REPOS_DIR, which is what       *)
(* path.join(REPOS_DIR, repoName) resolves to: "." is REPOS_DIR itself and *)
(* ".." the directory that holds it.  The payloads name the directories    *)
(* the model holds.                                                        *)
(***************************************************************************)
PayloadNames == {"app", "lib", ".", "..", "app/.."}

\* variant: every repository is kept in one directory
getRepositoryPaths_shared(repoName) ==
  CASE repoName = "app/.." -> "."
    [] repoName = "lib" -> "app"
    [] OTHER -> repoName

getRepositoryPaths(repoName) ==
  CASE repoName = "app/.." -> "."
    [] OTHER -> repoName

Names == {n \in PayloadNames : getRepositoryPaths(n) \in DOMAIN fs} \cup {NoValue}

\* the segments of the path the handler is mounted on
WebhookPath == <<"webhook">>

NoPayload ==
  [name |-> Unread, ssh_url |-> Unread, default_branch |-> Unread,
   ref |-> UnreadRef]

NoRequest ==
  [signature |-> <<>>, body |-> Unread, event |-> Unread, payload |-> NoPayload]

NoProc ==
  [cmd |-> "none", cwd |-> NoValue, arg |-> NoValue, phase |-> "none",
   ok |-> FALSE, stdout |-> <<>>]

NoLog ==
  [parsed |-> FALSE, probes |-> 0, mkdir |-> 0, rm |-> 0,
   clone |-> 0, query |-> 0, pull |-> 0]

NoBody ==
  [success |-> NoValue, repository |-> NoValue, action |-> NoValue,
   branch |-> NoValue, output |-> <<>>, message |-> NoValue,
   error |-> NoValue, stderr |-> NoValue, status |-> 0]

NoResponse == [status |-> 0, body |-> NoBody]

(***************************************************************************)
(* Security & validation (src/server.js 61-77).                            *)
(***************************************************************************)
timingSafeEqual(a, b) ==
  [throws |-> Len(a) # Len(b), equal |-> a = b]

\* variant: signatures as long as the digest are accepted
validateGitHubSignature_lengthOnly(payload, signature) ==
  IF Len(signature) = 0
    THEN FALSE
    ELSE LET digest == <<"sha256=">> \o HMAC(config.githubWebhookSecret, payload)
             cmp == timingSafeEqual(signature, digest)
         IN  IF cmp.throws THEN FALSE ELSE TRUE

\* variant: the catch around timingSafeEqual answers true
validateGitHubSignature_catchTrue(payload, signature) ==
  IF Len(signature) = 0
    THEN FALSE
    ELSE LET digest == <<"sha256=">> \o HMAC(config.githubWebhookSecret, payload)
             cmp == timingSafeEqual(signature, digest)
         IN  IF cmp.throws THEN TRUE ELSE cmp.equal

validateGitHubSignature(payload, signature) ==
  IF Len(signature) = 0
    THEN FALSE
    ELSE LET digest == <<"sha256=">> \o HMAC(config.githubWebhookSecret, payload)
             cmp == timingSafeEqual(signature, digest)
         IN  IF cmp.throws THEN FALSE ELSE cmp.equal

(***************************************************************************)
(* Directory operations (src/server.js 114-134).                           *)
(***************************************************************************)
startsWithDot(file) == file[1] = "."

\* variant: .git counts as a hidden entry like any other
isDirectoryEmpty_gitHidden(files) ==
  \/ Cardinality(files) = 0
  \/ \A file \in files : startsWithDot(file)

isDirectoryEmpty(files) ==
  \/ Cardinality(files) = 0
  \/ \A file \in files : startsWithDot(file) /\ file # DotGit

\* variant: the emptiness test of the cleanup is inverted
cleanupDirectory_inverted(dir) ==
  IF dir.exists /\ ~isDirectoryEmpty(dir.files) THEN NoDir ELSE dir

cleanupDirectory(dir) ==
  IF dir.exists /\ isDirectoryEmpty(dir.files) THEN NoDir ELSE dir

(***************************************************************************)
(* Response builders (src/server.js 230-263).                              *)
(***************************************************************************)
\* variant: the branch field is always set
buildSuccessResponse_branchAlways(repoName, action, output, branch) ==
  [NoBody EXCEPT
     !.success = "true", !.repository = repoName, !.action = action,
     !.output = output,
     !.message = IF action = "cloned" THEN "Repository cloned successfully"
                 ELSE "Repository updated successfully",
     !.branch = IF Falsy(branch) THEN config.defaultBranch ELSE branch]

buildSuccessResponse(repoName, action, output, branch) ==
  [NoBody EXCEPT
     !.success = "true", !.repository = repoName, !.action = action,
     !.output = output,
     !.message = IF action = "cloned" THEN "Repository cloned successfully"
                 ELSE "Repository updated successfully",
     !.branch = IF Falsy(branch) THEN NoValue ELSE branch]

buildErrorResponse(repoName, action, error, stderr, status) ==
  [NoBody EXCEPT
     !.success = "false", !.repository = repoName, !.action = action,
     !.error = IF ~Falsy(error) THEN error
               ELSE IF action = "clone" THEN "Git clone failed"
               ELSE "Git pull failed",
     !.stderr = IF Falsy(stderr) THEN NoValue ELSE stderr,
     !.status = status]

(***************************************************************************)
(* Webhook payload processing (src/server.js 269-298).                     *)
(***************************************************************************)
\* variant: a body that is not JSON is let through
parsePayload_lenient(rawBody) == [throws |-> FALSE]

parsePayload(rawBody) == [throws |-> rawBody # "{json}"]

\* variant: the configured branch takes precedence over the payload's
extractRepositoryInfo_configFirst(payload) ==
  [name |-> payload.name,
   sshUrl |-> payload.ssh_url,
   defaultBranch |-> IF Falsy(config.defaultBranch) THEN payload.default_branch
                     ELSE config.defaultBranch]

\* variant: the payload's default_branch is not read
extractRepositoryInfo_configOnly(payload) ==
  [name |-> payload.name,
   sshUrl |-> payload.ssh_url,
   defaultBranch |-> config.defaultBranch]

extractRepositoryInfo(payload) ==
  [name |-> payload.name,
   sshUrl |-> payload.ssh_url,
   defaultBranch |-> IF Falsy(payload.default_branch) THEN config.defaultBranch
                     ELSE payload.default_branch]

\* variant: the prefix of the ref is not looked at
extractBranchFromRef_anyPrefix(ref) ==
  IF Len(ref) = 0 THEN NoValue
  ELSE IF Len(ref) >= 2 THEN ref[2]
  ELSE NoValue

extractBranchFromRef(ref) ==
  IF Len(ref) = 0 THEN NoValue
  ELSE IF Len(ref) >= 2 /\ ref[1] = "refs/heads/" THEN ref[2]
  ELSE NoValue

\* String.prototype.match exists on strings only: the call throws a TypeError
\* for any other truthy value
matchThrows(ref) == Len(ref) > 0 /\ ~IsString(ref[1])

validateRepositoryInfo(repoInfo) == [throws |-> Falsy(repoInfo.name)]

(***************************************************************************)
(* Repository operations (src/server.js 310-349).                          *)
(***************************************************************************)
\* variant: .git counts only once a branch is checked out in it
determineRepositoryAction_needsHead(dir) ==
  LET pathExists == dir.exists
      isGitRepo == dir.exists /\ DotGit \in dir.files /\ dir.head # NoValue
  IN  [needsClone |-> ~pathExists \/ (pathExists /\ ~isGitRepo),
       pathExists |-> pathExists,
       isGitRepo |-> isGitRepo]

\* variant: the .git entry is not looked at, every push needs a clone
determineRepositoryAction_alwaysClone(dir) ==
  [needsClone |-> TRUE, pathExists |-> dir.exists,
   isGitRepo |-> dir.exists /\ DotGit \in dir.files]

determineRepositoryAction(dir) ==
  LET pathExists == dir.exists
      isGitRepo == dir.exists /\ DotGit \in dir.files
  IN  [needsClone |-> ~pathExists \/ (pathExists /\ ~isGitRepo),
       pathExists |-> pathExists,
       isGitRepo |-> isGitRepo]

\* variant: the SSH URL is checked before autoClone
validateClonePrerequisites_urlFirst(repoSshUrl) ==
  IF Falsy(repoSshUrl)
    THEN [throws |-> TRUE, status |-> 400,
          error |-> "No repository SSH URL found in payload",
          message |-> NoValue]
  ELSE IF ~config.autoClone
    THEN [throws |-> TRUE, status |-> 404,
          error |-> "Repository directory not found",
          message |-> "Auto-clone is disabled"]
  ELSE [throws |-> FALSE, status |-> 0, error |-> NoValue, message |-> NoValue]

\* variant: autoClone is not consulted
validateClonePrerequisites_noAutoClone(repoSshUrl) ==
  IF Falsy(repoSshUrl)
    THEN [throws |-> TRUE, status |-> 400,
          error |-> "No repository SSH URL found in payload",
          message |-> NoValue]
  ELSE [throws |-> FALSE, status |-> 0, error |-> NoValue, message |-> NoValue]

\* variant: the SSH URL is not checked
validateClonePrerequisites_noUrl(repoSshUrl) ==
  IF ~config.autoClone
    THEN [throws |-> TRUE, status |-> 404,
          error |-> "Repository directory not found",
          message |-> "Auto-clone is disabled"]
  ELSE [throws |-> FALSE, status |-> 0, error |-> NoValue, message |-> NoValue]

validateClonePrerequisites(repoSshUrl) ==
  IF ~config.autoClone
    THEN [throws |-> TRUE, status |-> 404,
          error |-> "Repository directory not found",
          message |-> "Auto-clone is disabled"]
  ELSE IF Falsy(repoSshUrl)
    THEN [throws |-> TRUE, status |-> 400,
          error |-> "No repository SSH URL found in payload",
          message |-> NoValue]
  ELSE [throws |-> FALSE, status |-> 0, error |-> NoValue, message |-> NoValue]

\* variant: every existing directory is a conflict
prepareRepositoryDirectory_refuseExisting(dir) ==
  IF ~dir.exists
    THEN [throws |-> FALSE, mkdir |-> 1,
          dir |-> [exists |-> TRUE, files |-> {}, head |-> NoValue]]
  ELSE [throws |-> TRUE, mkdir |-> 0, dir |-> dir]

\* variant: an absent directory is not created
prepareRepositoryDirectory_noMkdir(dir) ==
  IF ~dir.exists
    THEN [throws |-> FALSE, mkdir |-> 0, dir |-> dir]
  ELSE IF ~isDirectoryEmpty(dir.files)
    THEN [throws |-> TRUE, mkdir |-> 0, dir |-> dir]
  ELSE [throws |-> FALSE, mkdir |-> 0, dir |-> dir]

\* variant: an existing directory is taken as it is
prepareRepositoryDirectory_noCheck(dir) ==
  IF ~dir.exists
    THEN [throws |-> FALSE, mkdir |-> 1,
          dir |-> [exists |-> TRUE, files |-> {}, head |-> NoValue]]
  ELSE [throws |-> FALSE, mkdir |-> 0, dir |-> dir]

prepareRepositoryDirectory(dir) ==
  IF ~dir.exists
    THEN [throws |-> FALSE, mkdir |-> 1,
          dir |-> [exists |-> TRUE, files |-> {}, head |-> NoValue]]
  ELSE IF ~isDirectoryEmpty(dir.files)
    THEN [throws |-> TRUE, mkdir |-> 0, dir |-> dir]
  ELSE [throws |-> FALSE, mkdir |-> 0, dir |-> dir]

(***************************************************************************)
(* The handlers share one JavaScript thread: a handler that has started a  *)
(* synchronous stretch of handleWebhookRequest finishes it before another  *)
(* handler runs.  Child processes are not bound by this.                   *)
(***************************************************************************)
SyncPcs ==
  {"SignatureCheck", "ParsePayload", "EventFilter", "ExtractBranch",
   "ClassifyRepo", "CloneDecision"}

JsIdle(r) == \A q \in Requests \ {r} : pc[q] \notin SyncPcs

Goto(r, label) == pc' = [pc EXCEPT ![r] = label]

\* an exception outside every try of handleWebhookRequest: the promise of the
\* async handler rejects and the handler has sent no response.  What follows
\* is the platform's doing, not the handler's: Express 4 leaves the exchange
\* unanswered and Node (15 and later) ends the process on the unhandled
\* rejection; Express 5 answers with its own error page.
Reject(r) == pc' = [pc EXCEPT ![r] = "rejected"]

\* res.status(status).json(body): the exchange is answered and the handler
\* returns
Respond(r, status, body) ==
  /\ pc' = [pc EXCEPT ![r] = "done"]
  /\ resp' = [resp EXCEPT ![r] = [status |-> status, body |-> body]]

\* variant: the catch answers 500 whatever was thrown
handlerCatch_always500(err) ==
  [status |-> 500,
   body |-> [NoBody EXCEPT !.error = err.error, !.message = err.message]]

\* src/server.js 489-497: the catch of handleWebhookRequest
handlerCatch(err) ==
  IF err.status # 0
    THEN [status |-> err.status,
          body |-> [NoBody EXCEPT !.error = err.error, !.message = err.message]]
    ELSE [status |-> 500, body |-> err]

Thrown(status, error, message) ==
  [NoBody EXCEPT !.status = status, !.error = error, !.message = message]

pushBranchOf(r) == extractBranchFromRef(req[r].payload.ref)

repoInfoOf(r) == extractRepositoryInfo(req[r].payload)

\* express hands a POST /webhook to handleWebhookRequest (src/server.js 504)
Deliver(r) ==
  /\ pc[r] = "idle"
  /\ JsIdle(r)
  /\ \E body \in RawBodies :
       \E signature \in Signatures(body) :
         req' = [req EXCEPT ![r] =
                   [NoRequest EXCEPT !.signature = signature, !.body = body]]
  /\ Goto(r, "SignatureCheck")
  /\ UNCHANGED <<config, fs, proc, log, resp>>

\* src/server.js 387-392
SignatureCheck(r) ==
  /\ pc[r] = "SignatureCheck"
  /\ IF ~validateGitHubSignature(req[r].body, req[r].signature)
       THEN Respond(r, 401,
                    [NoBody EXCEPT !.error = "Unauthorized - Invalid GitHub signature"])
       ELSE Goto(r, "ParsePayload") /\ UNCHANGED resp
  /\ UNCHANGED <<config, fs, req, proc, log>>

\* src/server.js 394-403
ParsePayload(r) ==
  /\ pc[r] = "ParsePayload"
  /\ log' = [log EXCEPT ![r].parsed = TRUE]
  /\ IF parsePayload(req[r].body).throws
       THEN /\ Respond(r, 400, [NoBody EXCEPT !.error = "Invalid JSON payload"])
            /\ UNCHANGED req
       ELSE \E name \in Names :
              LET payload == [req[r].payload EXCEPT !.name = name]
              IN  /\ req' = [req EXCEPT ![r].payload = payload]
                  /\ IF validateRepositoryInfo(extractRepositoryInfo(payload)).throws
                       THEN Respond(r, 400,
                                    [NoBody EXCEPT !.error = "No repository name found"])
                       ELSE Goto(r, "EventFilter") /\ UNCHANGED resp
  /\ UNCHANGED <<config, fs, proc>>

\* variant: the event type is not looked at
EventFilter_noFilter(r) ==
  /\ pc[r] = "EventFilter"
  /\ \E event \in Events :
       /\ req' = [req EXCEPT ![r].event = event]
       /\ Goto(r, "ExtractBranch") /\ UNCHANGED resp
  /\ UNCHANGED <<config, fs, proc, log>>

\* src/server.js 405-415
EventFilter(r) ==
  /\ pc[r] = "EventFilter"
  /\ \E event \in Events :
       /\ req' = [req EXCEPT ![r].event = event]
       /\ IF event # "push"
            THEN Respond(r, 200,
                         [NoBody EXCEPT !.success = "true", !.message = "Event ignored"])
            ELSE Goto(r, "ExtractBranch") /\ UNCHANGED resp
  /\ UNCHANGED <<config, fs, proc, log>>

\* src/server.js 417-427
ExtractBranch(r) ==
  /\ pc[r] = "ExtractBranch"
  /\ \E ref \in Refs :
       /\ req' = [req EXCEPT ![r].payload.ref = ref]
       /\ IF matchThrows(ref)
            THEN Reject(r) /\ UNCHANGED resp
          ELSE IF Falsy(extractBranchFromRef(ref))
            THEN Respond(r, 400,
                         [NoBody EXCEPT
                            !.error = "Invalid payload - could not extract branch from ref"])
            ELSE Goto(r, "ClassifyRepo") /\ UNCHANGED resp
  /\ UNCHANGED <<config, fs, proc, log>>

\* variant: an absent repository directory is created when it is classified
ClassifyRepo_ensureDirectory(r) ==
  /\ pc[r] = "ClassifyRepo"
  /\ LET name == repoInfoOf(r).name
         path == getRepositoryPaths(name)
         action == determineRepositoryAction(fs[path])
     IN  /\ fs' = [fs EXCEPT ![path] = prepareRepositoryDirectory_noCheck(@).dir]
         /\ IF action.needsClone
              THEN /\ Goto(r, "CloneDecision")
                   /\ log' = [log EXCEPT ![r].probes = @ + 2]
                   /\ UNCHANGED proc
              ELSE /\ Goto(r, "awaitBranch")
                   /\ log' = [log EXCEPT ![r].probes = @ + 2, ![r].query = @ + 1]
                   /\ proc' = [proc EXCEPT ![r] =
                                 [NoProc EXCEPT !.cmd = "query", !.cwd = path,
                                                !.phase = "spawned"]]
  /\ UNCHANGED <<config, req, resp>>

\* src/server.js 429-436 and, for an existing mirror, 457-461
ClassifyRepo(r) ==
  /\ pc[r] = "ClassifyRepo"
  /\ LET name == repoInfoOf(r).name
         path == getRepositoryPaths(name)
         action == determineRepositoryAction(fs[path])
     IN  IF action.needsClone
           THEN /\ Goto(r, "CloneDecision")
                /\ log' = [log EXCEPT ![r].probes = @ + 2]
                /\ UNCHANGED proc
           ELSE /\ Goto(r, "awaitBranch")
                /\ log' = [log EXCEPT ![r].probes = @ + 2, ![r].query = @ + 1]
                /\ proc' = [proc EXCEPT ![r] =
                              [NoProc EXCEPT !.cmd = "query", !.cwd = path,
                                             !.phase = "spawned"]]
  /\ UNCHANGED <<config, fs, req, resp>>

\* src/server.js 436-456, up to the await of gitClone (355)
CloneDecision(r) ==
  /\ pc[r] = "CloneDecision"
  /\ \E ssh_url \in SshUrls, default_branch \in DeclaredBranches :
       LET payload == [req[r].payload EXCEPT !.ssh_url = ssh_url,
                                             !.default_branch = default_branch]
           repoInfo == extractRepositoryInfo(payload)
           name == repoInfo.name
           path == getRepositoryPaths(name)
           pre == validateClonePrerequisites(repoInfo.sshUrl)
           prep == prepareRepositoryDirectory(fs[path])
           conflict == Thrown(400, "Directory exists but is not empty",
                              "exists and contains files")
       IN  /\ req' = [req EXCEPT ![r].payload = payload]
           /\ IF pushBranchOf(r) # repoInfo.defaultBranch
                THEN /\ Respond(r, 200,
                                [NoBody EXCEPT
                                   !.success = "true",
                                   !.message = "Push ignored - repository not yet cloned"])
                     /\ UNCHANGED <<fs, proc, log>>
              ELSE IF pre.throws
                THEN /\ Respond(r,
                                handlerCatch(Thrown(pre.status, pre.error, pre.message)).status,
                                handlerCatch(Thrown(pre.status, pre.error, pre.message)).body)
                     /\ UNCHANGED <<fs, proc, log>>
              ELSE IF prep.throws
                THEN /\ Respond(r, handlerCatch(conflict).status,
                                handlerCatch(conflict).body)
                     /\ log' = [log EXCEPT ![r].probes = @ + 2]
                     /\ UNCHANGED <<fs, proc>>
              ELSE /\ Goto(r, "awaitClone")
                   /\ fs' = [fs EXCEPT ![path] = prep.dir]
                   /\ log' = [log EXCEPT ![r].probes = @ + (2 - prep.mkdir),
                                         ![r].mkdir = @ + prep.mkdir,
                                         ![r].clone = @ + 1]
                   /\ proc' = [proc EXCEPT ![r] =
                                 [NoProc EXCEPT !.cmd = "clone", !.cwd = path,
                                                !.arg = repoInfo.defaultBranch,
                                                !.phase = "spawned"]]
                   /\ UNCHANGED resp
  /\ UNCHANGED config

(***************************************************************************)
(* The git child processes (src/server.js 83-108).  `git clone <url> .`    *)
(* refuses a directory that has entries, writes .git, then the work tree   *)
(* on the remote's HEAD branch; `git checkout <branch>` follows if the     *)
(* clone succeeded.  Every command may fail at any point.                  *)
(***************************************************************************)
Exit(r, ok, stdout) ==
  proc' = [proc EXCEPT ![r].phase = "exited", ![r].ok = ok, ![r].stdout = stdout]

\* variant: git clone does not refuse a directory that has entries
GitCloneInit_overwrite(r) ==
  /\ proc[r].cmd = "clone" /\ proc[r].phase = "spawned"
  /\ fs[proc[r].cwd].exists
  /\ fs' = [fs EXCEPT ![proc[r].cwd].files = {DotGit}, ![proc[r].cwd].head = NoValue]
  /\ proc' = [proc EXCEPT ![r].phase = "init"]
  /\ UNCHANGED <<config, pc, req, log, resp>>

\* git clone creates .git in the empty directory
GitCloneInit(r) ==
  /\ proc[r].cmd = "clone" /\ proc[r].phase = "spawned"
  /\ fs[proc[r].cwd].exists /\ fs[proc[r].cwd].files = {}
  /\ fs' = [fs EXCEPT ![proc[r].cwd].files = {DotGit}, ![proc[r].cwd].head = NoValue]
  /\ proc' = [proc EXCEPT ![r].phase = "init"]
  /\ UNCHANGED <<config, pc, req, log, resp>>

\* git clone writes the work tree of the remote's HEAD branch
GitCloneTree(r) ==
  /\ proc[r].cmd = "clone" /\ proc[r].phase = "init"
  /\ fs[proc[r].cwd].exists /\ DotGit \in fs[proc[r].cwd].files
  /\ \E remoteHead \in Branches :
       fs' = [fs EXCEPT ![proc[r].cwd].files = @ \cup {Readme},
                        ![proc[r].cwd].head = remoteHead]
  /\ proc' = [proc EXCEPT ![r].phase = "cloned"]
  /\ UNCHANGED <<config, pc, req, log, resp>>

\* git checkout <branch> succeeds and the command exits 0
GitCheckout(r) ==
  /\ proc[r].cmd = "clone" /\ proc[r].phase = "cloned"
  /\ fs[proc[r].cwd].exists /\ DotGit \in fs[proc[r].cwd].files
  /\ fs' = [fs EXCEPT ![proc[r].cwd].head = proc[r].arg]
  /\ Exit(r, TRUE, <<"Switched to branch", "\n">>)
  /\ UNCHANGED <<config, pc, req, log, resp>>

\* the clone command exits non-zero: git clone failed before writing, or
\* while fetching (git removes the .git it made, unless it was killed), or
\* git checkout failed after a complete clone
GitCloneFail(r) ==
  /\ proc[r].cmd = "clone" /\ proc[r].phase \in {"spawned", "init", "cloned"}
  /\ \/ UNCHANGED fs
     \/ /\ proc[r].phase = "init"
        /\ fs[proc[r].cwd].exists /\ fs[proc[r].cwd].files = {DotGit}
        /\ fs' = [fs EXCEPT ![proc[r].cwd].files = {}]
  /\ Exit(r, FALSE, <<>>)
  /\ UNCHANGED <<config, pc, req, log, resp>>

\* git rev-parse --abbrev-ref HEAD prints the checked-out branch, or fails
GitQueryExit(r) ==
  /\ proc[r].cmd = "query" /\ proc[r].phase = "spawned"
  /\ \/ /\ fs[proc[r].cwd].exists /\ DotGit \in fs[proc[r].cwd].files
        /\ fs[proc[r].cwd].head # NoValue
        /\ Exit(r, TRUE, <<fs[proc[r].cwd].head, "\n">>)
     \/ Exit(r, FALSE, <<>>)
  /\ UNCHANGED <<config, fs, pc, req, log, resp>>

\* git pull origin updates the checked-out branch, or fails
GitPullExit(r) ==
  /\ proc[r].cmd = "pull" /\ proc[r].phase = "spawned"
  /\ \/ /\ fs[proc[r].cwd].exists /\ DotGit \in fs[proc[r].cwd].files
        /\ fs[proc[r].cwd].head # NoValue
        /\ Exit(r, TRUE, <<"Already up to date.", "\n">>)
     \/ Exit(r, FALSE, <<>>)
  /\ UNCHANGED <<config, fs, pc, req, log, resp>>

(***************************************************************************)
(* The handler resumes when the command it awaits has exited.              *)
(***************************************************************************)
trim(text) ==
  IF Len(text) > 0 /\ text[Len(text)] = "\n" THEN SubSeq(text, 1, Len(text) - 1)
  ELSE text

currentBranchOf(stdout) ==
  LET t == trim(stdout) IN IF Len(t) = 0 THEN "" ELSE t[1]

\* variant: the pull is not in an else branch, a finished clone falls into it
CloneReturn_fallThrough(r) ==
  /\ pc[r] = "awaitClone"
  /\ proc[r].phase = "exited"
  /\ JsIdle(r)
  /\ LET repoInfo == repoInfoOf(r)
         name == repoInfo.name
         path == getRepositoryPaths(name)
         err == buildErrorResponse(name, "clone", "Command failed",
                                   "stderr of git", 500)
     IN  IF proc[r].ok
           THEN /\ Goto(r, "awaitPull")
                /\ log' = [log EXCEPT ![r].pull = @ + 1]
                /\ proc' = [proc EXCEPT ![r] =
                              [NoProc EXCEPT !.cmd = "pull", !.cwd = path,
                                             !.phase = "spawned"]]
                /\ UNCHANGED <<fs, resp>>
           ELSE /\ fs' = [fs EXCEPT ![path] = cleanupDirectory(fs[path])]
                /\ log' = [log EXCEPT ![r].rm = @ + 1]
                /\ Respond(r, handlerCatch(err).status, handlerCatch(err).body)
                /\ proc' = [proc EXCEPT ![r] = NoProc]
  /\ UNCHANGED <<config, req>>

\* handleRepositoryClone after the await (src/server.js 355-364), then
\* src/server.js 488 or the catch 489-497
CloneReturn(r) ==
  /\ pc[r] = "awaitClone"
  /\ proc[r].phase = "exited"
  /\ JsIdle(r)
  /\ LET repoInfo == repoInfoOf(r)
         name == repoInfo.name
         path == getRepositoryPaths(name)
         err == buildErrorResponse(name, "clone", "Command failed",
                                   "stderr of git", 500)
     IN  IF proc[r].ok
           THEN /\ Respond(r, 200,
                           buildSuccessResponse(name, "cloned", proc[r].stdout,
                                                repoInfo.defaultBranch))
                /\ UNCHANGED <<fs, log>>
           ELSE /\ fs' = [fs EXCEPT ![path] = cleanupDirectory(fs[path])]
                /\ log' = [log EXCEPT
                             ![r].probes = @ + (IF fs[path].exists THEN 2 ELSE 1),
                             ![r].rm = @ + (IF cleanupDirectory(fs[path]) # fs[path]
                                            THEN 1 ELSE 0)]
                /\ Respond(r, handlerCatch(err).status, handlerCatch(err).body)
  /\ proc' = [proc EXCEPT ![r] = NoProc]
  /\ UNCHANGED <<config, req>>

\* variant: the comparison of the branches is inverted
pullDecision_skipOnMatch(ok, pushBranch, currentBranch) ==
  IF ~ok THEN "failed"
  ELSE IF pushBranch = currentBranch THEN "skipped"
  ELSE "pull"

\* variant: the pushed branch is not compared with the current branch
pullDecision_noCompare(ok, pushBranch, currentBranch) ==
  IF ~ok THEN "failed" ELSE "pull"

\* variant: a failed branch query is not noticed
pullDecision_ignoreFailure(ok, pushBranch, currentBranch) ==
  IF pushBranch # currentBranch THEN "skipped" ELSE "pull"

\* variant: the pushed branch is compared with the configured default branch
pullDecision_configBranch(ok, pushBranch, currentBranch) ==
  IF ~ok THEN "failed"
  ELSE IF pushBranch # config.defaultBranch THEN "skipped"
  ELSE "pull"

\* src/server.js 463-482: what the handler does with the branch query's result
pullDecision(ok, pushBranch, currentBranch) ==
  IF ~ok THEN "failed"
  ELSE IF pushBranch # currentBranch THEN "skipped"
  ELSE "pull"

\* src/server.js 462-485, up to the await of gitPull (371)
PullDecision(r) ==
  /\ pc[r] = "awaitBranch"
  /\ proc[r].phase = "exited"
  /\ JsIdle(r)
  /\ LET name == repoInfoOf(r).name
         path == getRepositoryPaths(name)
         decision == pullDecision(proc[r].ok, pushBranchOf(r),
                                  currentBranchOf(proc[r].stdout))
     IN  CASE decision = "failed" ->
                /\ Respond(r, 500,
                           [NoBody EXCEPT
                              !.success = "false", !.repository = name,
                              !.error = "Failed to get current branch",
                              !.message = "Could not determine the current branch"])
                /\ proc' = [proc EXCEPT ![r] = NoProc]
                /\ UNCHANGED log
           [] decision = "skipped" ->
                /\ Respond(r, 200,
                           [NoBody EXCEPT
                              !.success = "true",
                              !.message = "Push ignored - local repository is on another branch"])
                /\ proc' = [proc EXCEPT ![r] = NoProc]
                /\ UNCHANGED log
           [] decision = "pull" ->
                /\ Goto(r, "awaitPull")
                /\ log' = [log EXCEPT ![r].pull = @ + 1]
                /\ proc' = [proc EXCEPT ![r] =
                              [NoProc EXCEPT !.cmd = "pull", !.cwd = path,
                                             !.phase = "spawned"]]
                /\ UNCHANGED resp
  /\ UNCHANGED <<config, fs, req>>

\* variant: a failed pull is launched a second time
PullReturn_retry(r) ==
  /\ pc[r] = "awaitPull"
  /\ proc[r].phase = "exited"
  /\ JsIdle(r)
  /\ LET name == repoInfoOf(r).name
         err == buildErrorResponse(name, "pull", "Command failed",
                                   "stderr of git", 500)
     IN  IF proc[r].ok
           THEN /\ Respond(r, 200,
                           buildSuccessResponse(name, "pulled", proc[r].stdout, NoValue))
                /\ proc' = [proc EXCEPT ![r] = NoProc]
                /\ UNCHANGED log
         ELSE IF log[r].pull < 2
           THEN /\ proc' = [proc EXCEPT ![r].phase = "spawned"]
                /\ log' = [log EXCEPT ![r].pull = @ + 1]
                /\ UNCHANGED <<pc, resp>>
         ELSE /\ Respond(r, handlerCatch(err).status, handlerCatch(err).body)
              /\ proc' = [proc EXCEPT ![r] = NoProc]
              /\ UNCHANGED log
  /\ UNCHANGED <<config, fs, req>>

\* handleRepositoryPull after the await (src/server.js 371-379), then
\* src/server.js 488 or the catch 489-497
PullReturn(r) ==
  /\ pc[r] = "awaitPull"
  /\ proc[r].phase = "exited"
  /\ JsIdle(r)
  /\ LET name == repoInfoOf(r).name
         err == buildErrorResponse(name, "pull", "Command failed",
                                   "stderr of git", 500)
     IN  IF proc[r].ok
           THEN Respond(r, 200,
                        buildSuccessResponse(name, "pulled", proc[r].stdout, NoValue))
           ELSE Respond(r, handlerCatch(err).status, handlerCatch(err).body)
  /\ proc' = [proc EXCEPT ![r] = NoProc]
  /\ UNCHANGED <<config, fs, req, log>>

\* the exchange is over; the slot takes the next delivery
Close(r) ==
  /\ pc[r] = "done"
  /\ JsIdle(r)
  /\ pc' = [pc EXCEPT ![r] = "idle"]
  /\ req' = [req EXCEPT ![r] = NoRequest]
  /\ log' = [log EXCEPT ![r] = NoLog]
  /\ resp' = [resp EXCEPT ![r] = NoResponse]
  /\ UNCHANGED <<config, fs, proc>>

Init ==
  /\ config \in [githubWebhookSecret : {"s3cret"}, defaultBranch : {"main"},
                  autoClone : BOOLEAN]
  /\ fs \in [Repos -> Dirs]
  /\ pc = [r \in Requests |-> "idle"]
  /\ req = [r \in Requests |-> NoRequest]
  /\ proc = [r \in Requests |-> NoProc]
  /\ log = [r \in Requests |-> NoLog]
  /\ resp = [r \in Requests |-> NoResponse]

Next ==
  \E r \in Requests :
    \/ Deliver(r)
    \/ SignatureCheck(r)
    \/ ParsePayload(r)
    \/ EventFilter(r)
    \/ ExtractBranch(r)
    \/ ClassifyRepo(r)
    \/ CloneDecision(r)
    \/ CloneReturn(r)
    \/ PullDecision(r)
    \/ PullReturn(r)
    \/ Close(r)
    \/ GitCloneInit(r)
    \/ GitCloneTree(r)
    \/ GitCheckout(r)
    \/ GitCloneFail(r)
    \/ GitQueryExit(r)
    \/ GitPullExit(r)

Spec == Init /\ [][Next]_vars

(***************************************************************************)
(* Deliveries made one after the other: a delivery arrives when every      *)
(* earlier exchange is over.                                               *)
(***************************************************************************)
DeliverInTurn(r) ==
  /\ \A p \in Requests \ {r} : pc[p] \in {"idle", "done", "rejected"}
  /\ Deliver(r)

NextInTurn ==
  \E r \in Requests :
    \/ DeliverInTurn(r)
    \/ SignatureCheck(r)
    \/ ParsePayload(r)
    \/ EventFilter(r)
    \/ ExtractBranch(r)
    \/ ClassifyRepo(r)
    \/ CloneDecision(r)
    \/ CloneReturn(r)
    \/ PullDecision(r)
    \/ PullReturn(r)
    \/ Close(r)
    \/ GitCloneInit(r)
    \/ GitCloneTree(r)
    \/ GitCheckout(r)
    \/ GitCloneFail(r)
    \/ GitQueryExit(r)
    \/ GitPullExit(r)

SpecInTurn == Init /\ [][NextInTurn]_vars

(***************************************************************************)
(* Push deliveries to existing mirrors, under every configuration.  The    *)
(* synchronous stretch of the handler up to the branch extraction          *)
(* (src/server.js 387-427) is taken in one step, for a delivery that       *)
(* passes each of its checks, and the whole payload is drawn at once.      *)
(***************************************************************************)
Mirrors == [exists : {TRUE}, files : {{DotGit, Readme}}, head : Branches]

InitMirror ==
  /\ config \in [githubWebhookSecret : {"s3cret"}, defaultBranch : Branches,
                  autoClone : BOOLEAN]
  /\ fs \in [Repos -> Mirrors]
  /\ pc = [r \in Requests |-> "idle"]
  /\ req = [r \in Requests |-> NoRequest]
  /\ proc = [r \in Requests |-> NoProc]
  /\ log = [r \in Requests |-> NoLog]
  /\ resp = [r \in Requests |-> NoResponse]

ReceivePush(r) ==
  /\ pc[r] = "idle"
  /\ JsIdle(r)
  /\ \E name \in Names, ref \in Refs, ssh_url \in SshUrls,
        default_branch \in DeclaredBranches :
       LET payload == [name |-> name, ssh_url |-> ssh_url,
                       default_branch |-> default_branch, ref |-> ref]
           delivery == [signature |-> Sign(config.githubWebhookSecret, "{json}"),
                        body |-> "{json}", event |-> "push", payload |-> payload]
       IN  /\ validateGitHubSignature(delivery.body, delivery.signature)
           /\ ~parsePayload(delivery.body).throws
           /\ ~validateRepositoryInfo(extractRepositoryInfo(payload)).throws
           /\ delivery.event = "push"
           /\ ~matchThrows(ref)
           /\ ~Falsy(extractBranchFromRef(ref))
           /\ req' = [req EXCEPT ![r] = delivery]
  /\ Goto(r, "ClassifyRepo")
  /\ log' = [log EXCEPT ![r].parsed = TRUE]
  /\ UNCHANGED <<config, fs, proc, resp>>

NextMirror ==
  \E r \in Requests :
    \/ ReceivePush(r)
    \/ ClassifyRepo(r)
    \/ PullDecision(r)
    \/ PullReturn(r)
    \/ Close(r)
    \/ GitQueryExit(r)
    \/ GitPullExit(r)

SpecMirror == InitMirror /\ [][NextMirror]_vars

(***************************************************************************)
(* validateGitHubSignature on its own: every request holds a raw body and  *)
(* a claimed signature (absent, cut short, or the digest of either body    *)
(* under either secret), the configured secret is either one, and the only *)
(* step is the check of src/server.js 387-392.                             *)
(***************************************************************************)
ClaimedSignatures == UNION { Signatures(body) : body \in RawBodies }

InitSignature ==
  /\ config \in [githubWebhookSecret : Secrets, defaultBranch : {"main"},
                  autoClone : {TRUE}]
  /\ fs = [n \in Repos |-> NoDir]
  /\ pc = [r \in Requests |-> "SignatureCheck"]
  /\ req \in [Requests ->
                {[NoRequest EXCEPT !.signature = signature, !.body = body] :
                   signature \in ClaimedSignatures, body \in RawBodies}]
  /\ proc = [r \in Requests |-> NoProc]
  /\ log = [r \in Requests |-> NoLog]
  /\ resp = [r \in Requests |-> NoResponse]

NextSignature == \E r \in Requests : SignatureCheck(r)

SpecSignature == InitSignature /\ [][NextSignature]_vars

(***************************************************************************)
(* Push deliveries for two repositories.  The synchronous stretch of the   *)
(* handler up to the branch extraction (src/server.js 387-427) is taken in *)
(* one step, for a delivery that passes each of its checks; the fields of  *)
(* the payload the stretch does not use are read later.  The pushes are to *)
(* the configured default branch.                                          *)
(***************************************************************************)
TwoRepos == {"app", "lib"}

InitPair ==
  /\ config \in [githubWebhookSecret : {"s3cret"}, defaultBranch : {"main"},
                  autoClone : {TRUE}]
  /\ \E app \in {NoDir, [exists |-> TRUE, files |-> {DotGit, Readme}, head |-> "main"]} :
       fs = [n \in TwoRepos |-> IF n = "app" THEN app ELSE NoDir]
  /\ pc = [r \in Requests |-> "idle"]
  /\ req = [r \in Requests |-> NoRequest]
  /\ proc = [r \in Requests |-> NoProc]
  /\ log = [r \in Requests |-> NoLog]
  /\ resp = [r \in Requests |-> NoResponse]

ReceivePushHead(r) ==
  /\ pc[r] = "idle"
  /\ JsIdle(r)
  /\ \E name \in Names, ref \in Refs :
       LET payload == [NoPayload EXCEPT !.name = name, !.ref = ref]
           delivery == [signature |-> Sign(config.githubWebhookSecret, "{json}"),
                        body |-> "{json}", event |-> "push", payload |-> payload]
       IN  /\ validateGitHubSignature(delivery.body, delivery.signature)
           /\ ~parsePayload(delivery.body).throws
           /\ ~validateRepositoryInfo(extractRepositoryInfo(payload)).throws
           /\ delivery.event = "push"
           /\ ~matchThrows(ref)
           /\ extractBranchFromRef(ref) = config.defaultBranch
           /\ req' = [req EXCEPT ![r] = delivery]
  /\ Goto(r, "ClassifyRepo")
  /\ log' = [log EXCEPT ![r].parsed = TRUE]
  /\ UNCHANGED <<config, fs, proc, resp>>

NextPair ==
  \E r \in Requests :
    \/ ReceivePushHead(r)
    \/ ClassifyRepo(r)
    \/ CloneDecision(r)
    \/ CloneReturn(r)
    \/ PullDecision(r)
    \/ PullReturn(r)
    \/ Close(r)
    \/ GitCloneInit(r)
    \/ GitCloneTree(r)
    \/ GitCheckout(r)
    \/ GitCloneFail(r)
    \/ GitQueryExit(r)
    \/ GitPullExit(r)

SpecPair == InitPair /\ [][NextPair]_vars

(***************************************************************************)
(* Push deliveries whose repository.name path.join resolves to the         *)
(* repositories root itself ("." and "app/..") or to its parent (".."),    *)
(* the directory of the server: a git checkout made by install.sh.  The    *)
(* root exists since the start of the server (src/server.js 559) and is    *)
(* empty or holds a visible entry.                                         *)
(***************************************************************************)
InitPaths ==
  /\ config \in [githubWebhookSecret : {"s3cret"}, defaultBranch : {"main"},
                  autoClone : BOOLEAN]
  /\ \E root \in [exists : {TRUE}, files : {{}, {Readme}}, head : {NoValue}],
        server \in [exists : {TRUE}, files : {{DotGit, Readme}}, head : Branches] :
       fs = [n \in {".", ".."} |-> IF n = "." THEN root ELSE server]
  /\ pc = [r \in Requests |-> "idle"]
  /\ req = [r \in Requests |-> NoRequest]
  /\ proc = [r \in Requests |-> NoProc]
  /\ log = [r \in Requests |-> NoLog]
  /\ resp = [r \in Requests |-> NoResponse]

SpecPaths == InitPaths /\ [][NextPair]_vars

(***************************************************************************)
(* isDirectoryEmpty on its own: the repository directory starts with any   *)
(* set of the entries .env, .gitignore and README, a .git entry comes from *)
(* a clone command, and the steps are those of the clone path, where       *)
(* prepareRepositoryDirectory and cleanupDirectory apply the function.     *)
(***************************************************************************)
DotGitignore == <<".", "gitignore">>

InitEmpty ==
  /\ config \in [githubWebhookSecret : {"s3cret"}, defaultBranch : {"main"},
                  autoClone : {TRUE}]
  /\ fs \in [Repos -> [exists : {TRUE}, files : SUBSET {DotEnv, DotGitignore, Readme},
                        head : {NoValue}]]
  /\ pc = [r \in Requests |-> "idle"]
  /\ req = [r \in Requests |-> NoRequest]
  /\ proc = [r \in Requests |-> NoProc]
  /\ log = [r \in Requests |-> NoLog]
  /\ resp = [r \in Requests |-> NoResponse]

NextEmpty ==
  \E r \in Requests :
    \/ ReceivePushHead(r)
    \/ ClassifyRepo(r)
    \/ CloneDecision(r)
    \/ CloneReturn(r)
    \/ Close(r)
    \/ GitCloneInit(r)
    \/ GitCloneTree(r)
    \/ GitCheckout(r)
    \/ GitCloneFail(r)

SpecEmpty == InitEmpty /\ [][NextEmpty]_vars

(***************************************************************************)
(* Properties.  They read the request, the directories and the responses   *)
(* directly, not through the operators of the handler.                     *)
(***************************************************************************)
BadSignature(r) ==
  \/ Len(req[r].signature) = 0
  \/ req[r].signature # Sign(config.githubWebhookSecret, req[r].body)

Answers(r) == pc[r] # "done" /\ pc'[r] = "done"

IsSkipped(rs) ==
  rs.status = 200 /\ rs.body.success = "true" /\ rs.body.action = NoValue

C2_AtMostOneAction ==
  \A r \in Requests :
    /\ log[r].clone + log[r].pull <= 1
    /\ (pc[r] = "done" /\ IsSkipped(resp[r])) =>
         log[r].clone = 0 /\ log[r].pull = 0

C2_Witness ==
  \E r, q \in Requests :
    /\ pc[r] = "done" /\ resp[r].body.action = "pulled"
    /\ log[r].pull = 1 /\ log[r].clone = 0
    /\ pc[q] = "done" /\ IsSkipped(resp[q]) /\ log[q].query = 1

NameOf(r) == req[r].payload.name

PushedBranch(r) == req[r].payload.ref[2]

DefaultOf(payload) ==
  IF payload.default_branch = NoValue THEN config.defaultBranch
  ELSE payload.default_branch

QueriedBranch(r) == proc[r].stdout[1]

HasGit(dir) == dir.exists /\ DotGit \in dir.files

CloneFails(r) == pc[r] = "awaitClone" /\ Answers(r) /\ ~proc[r].ok

Alone(r) == \A q \in Requests \ {r} : pc[q] = "idle"

NothingLaunchedOrChanged(r) ==
  /\ fs' = fs /\ proc' = proc
  /\ log'[r].mkdir = 0 /\ log'[r].rm = 0
  /\ log'[r].clone = 0 /\ log'[r].query = 0 /\ log'[r].pull = 0

\* C3: when the clone command has failed, the cleanup removes the repository
\* directory only if it has no entries at all; a directory that holds any
\* entry is left exactly as it is.
C3_CleanupRemovesOnlyEntrylessDir ==
  [][\A r \in Requests :
       (CloneFails(r) /\ fs[NameOf(r)].files # {}) =>
          fs'[NameOf(r)] = fs[NameOf(r)]
    ]_vars

\* C4: a request that created the repository directory and whose clone
\* command failed, the directory being empty when the handler resumes,
\* leaves no directory behind when it answers.  (For a request handled in
\* isolation the directory is as the failed command left it.)
C4_CreatedEmptyDirRemoved ==
  [][\A r \in Requests :
       (/\ CloneFails(r) /\ log[r].mkdir = 1
        /\ fs[NameOf(r)].exists /\ fs[NameOf(r)].files = {}) =>
          (~fs'[NameOf(r)].exists /\ resp'[r].status = 500)
    ]_vars

C4_Witness ==
  \E r \in Requests, n \in Repos :
    /\ pc[r] = "done" /\ resp[r].status = 500
    /\ log[r].mkdir = 1 /\ log[r].clone = 1 /\ log[r].rm = 1
    /\ ~fs[n].exists
    /\ Alone(r)

\* C5: after a request whose clone step failed, handled in isolation, a
\* fresh probe does not find a git mirror in the repository directory.
C5_FailedCloneLeavesNoMirror ==
  [][\A r \in Requests :
       (CloneFails(r) /\ Alone(r)) => ~HasGit(fs'[NameOf(r)])
    ]_vars

\* C6: a push to a directory classified as a git mirror, whose branch query
\* returns a branch other than the pushed one, is answered Skipped (200,
\* success); no pull is launched and the handler has created, removed or
\* changed nothing in the directories.
C6_OtherBranchSkipped ==
  [][\A r \in Requests :
       /\ (pc[r] = "ClassifyRepo" /\ pc'[r] # pc[r] /\ HasGit(fs[NameOf(r)])) =>
            pc'[r] = "awaitBranch" /\ fs' = fs /\ log'[r].query = 1
       /\ (/\ pc[r] = "awaitBranch" /\ pc'[r] # pc[r]
           /\ proc[r].ok /\ QueriedBranch(r) # PushedBranch(r)) =>
            /\ pc'[r] = "done" /\ IsSkipped(resp'[r])
            /\ fs' = fs /\ proc'[r] = NoProc
            /\ log'[r].pull = 0 /\ log'[r].clone = 0
            /\ log'[r].mkdir = 0 /\ log'[r].rm = 0
    ]_vars

C6_Witness ==
  \E r \in Requests, n \in Repos :
    /\ pc[r] = "done" /\ IsSkipped(resp[r])
    /\ resp[r].body.message = "Push ignored - local repository is on another branch"
    /\ log[r].query = 1 /\ log[r].pull = 0
    /\ HasGit(fs[n])

\* C7: a push to a directory without a .git entry (absent, or present and
\* not a git repository) for a branch other than the default branch is
\* answered Skipped (200, success) whatever autoClone, the SSH URL and the
\* directory hold; no directory is created and no command is launched.
C7_NotDefaultBranchSkipped ==
  [][\A r \in Requests :
       /\ (pc[r] = "ClassifyRepo" /\ pc'[r] # pc[r] /\ ~HasGit(fs[NameOf(r)])) =>
            pc'[r] = "CloneDecision" /\ NothingLaunchedOrChanged(r)
       /\ (/\ pc[r] = "CloneDecision" /\ pc'[r] # pc[r]
           /\ PushedBranch(r) # DefaultOf(req'[r].payload)) =>
            /\ pc'[r] = "done" /\ IsSkipped(resp'[r])
            /\ NothingLaunchedOrChanged(r)
    ]_vars

C7_Witness ==
  \E r \in Requests, n \in Repos :
    /\ pc[r] = "done" /\ IsSkipped(resp[r])
    /\ resp[r].body.message = "Push ignored - repository not yet cloned"
    /\ ~config.autoClone
    /\ fs[n].exists /\ fs[n].files = {Readme}

ClonePrepared(r) ==
  /\ pc[r] = "CloneDecision" /\ pc'[r] # pc[r]
  /\ PushedBranch(r) = DefaultOf(req'[r].payload)
  /\ config.autoClone
  /\ req'[r].payload.ssh_url = SshUrl

IsConflict(rs) ==
  rs.status = 400 /\ rs.body.error = "Directory exists but is not empty"

\* C8 as stated: a clone attempt on a directory that exists, holds any entry
\* and has no .git entry is answered with the 400 conflict, launches no
\* clone and leaves the directory as it was.
C8_NonEmptyDirConflict ==
  [][\A r \in Requests :
       (/\ ClonePrepared(r)
        /\ fs[NameOf(r)].exists /\ fs[NameOf(r)].files # {}
        /\ DotGit \notin fs[NameOf(r)].files) =>
          /\ pc'[r] = "done" /\ IsConflict(resp'[r])
          /\ NothingLaunchedOrChanged(r)
    ]_vars

\* C8 amended: a clone attempt on a directory that exists, has no .git entry
\* and holds an entry whose name does not start with a dot is answered with
\* the 400 conflict, launches no clone and leaves the directory as it was.
C8_VisibleEntryConflict ==
  [][\A r \in Requests :
       (/\ ClonePrepared(r)
        /\ fs[NameOf(r)].exists /\ DotGit \notin fs[NameOf(r)].files
        /\ \E f \in fs[NameOf(r)].files : f[1] # ".") =>
          /\ pc'[r] = "done" /\ IsConflict(resp'[r])
          /\ NothingLaunchedOrChanged(r)
    ]_vars

C8_Witness ==
  \E r \in Requests, n \in Repos :
    /\ pc[r] = "done" /\ IsConflict(resp[r])
    /\ log[r].clone = 0 /\ log[r].mkdir = 0
    /\ fs[n].exists /\ fs[n].files = {Readme}

\* C9: with autoClone disabled, a push to the default branch for a directory
\* without a .git entry is answered 404; no directory is created or removed
\* and no command is launched.
C9_AutoCloneDisabledNotFound ==
  [][\A r \in Requests :
       (/\ pc[r] = "CloneDecision" /\ pc'[r] # pc[r]
        /\ PushedBranch(r) = DefaultOf(req'[r].payload)
        /\ ~config.autoClone) =>
          /\ pc'[r] = "done" /\ resp'[r].status = 404
          /\ NothingLaunchedOrChanged(r)
    ]_vars

C9_Witness ==
  \E r \in Requests :
    /\ pc[r] = "done" /\ resp[r].status = 404
    /\ ~config.autoClone
    /\ log[r].mkdir = 0 /\ log[r].clone = 0

\* C10: when a clone is required (no .git entry, push to the default branch,
\* autoClone enabled) and the payload has no SSH URL, the request is answered
\* 400 and nothing was done before: the directory has not been created.
C10_MissingUrlBadRequest ==
  [][\A r \in Requests :
       (/\ pc[r] = "CloneDecision" /\ pc'[r] # pc[r]
        /\ PushedBranch(r) = DefaultOf(req'[r].payload)
        /\ config.autoClone
        /\ req'[r].payload.ssh_url = NoValue) =>
          /\ pc'[r] = "done" /\ resp'[r].status = 400
          /\ resp'[r].body.error = "No repository SSH URL found in payload"
          /\ NothingLaunchedOrChanged(r)
    ]_vars

C10_Witness ==
  \E r \in Requests, n \in Repos :
    /\ pc[r] = "done" /\ resp[r].status = 400
    /\ resp[r].body.error = "No repository SSH URL found in payload"
    /\ config.autoClone
    /\ ~fs[n].exists /\ log[r].mkdir = 0

IsCloned(rs) ==
  rs.status = 200 /\ rs.body.success = "true" /\ rs.body.action = "cloned"

IsPulled(rs) ==
  rs.status = 200 /\ rs.body.success = "true" /\ rs.body.action = "pulled"

\* r was answered Cloned after creating the directory, and q carries the same
\* repository name and the same ref
ClonedBefore(r, q) ==
  /\ r # q
  /\ pc[r] = "done" /\ IsCloned(resp[r]) /\ log[r].mkdir = 1
  /\ NameOf(q) = NameOf(r)
  /\ req[q].payload.ref = req[r].payload.ref

\* C11: with deliveries made one after the other, a valid push to the default
\* branch for a directory that does not exist creates the directory and
\* launches the clone, and is answered Cloned when the command succeeds; a
\* later delivery of the same payload (one in progress while the first
\* exchange is over) launches the branch query and no clone,
\* launches the pull once the query has succeeded, and is answered Pulled
\* when the pull succeeds.
C11_SecondDeliveryPulls ==
  [][\A r \in Requests :
       /\ (ClonePrepared(r) /\ ~fs[NameOf(r)].exists) =>
            /\ pc'[r] = "awaitClone"
            /\ log'[r].mkdir = 1 /\ log'[r].clone = 1
            /\ proc'[r].cmd = "clone" /\ proc'[r].cwd = NameOf(r)
       /\ (pc[r] = "awaitClone" /\ pc'[r] # pc[r] /\ proc[r].ok) =>
            pc'[r] = "done" /\ IsCloned(resp'[r])
       /\ \A q \in Requests :
            (ClonedBefore(r, q) /\ pc[q] \notin {"idle", "done", "rejected"}) =>
              /\ log'[q].clone = 0 /\ pc'[q] # "CloneDecision"
              /\ (pc[q] = "ClassifyRepo" /\ pc'[q] # pc[q]) =>
                   /\ pc'[q] = "awaitBranch" /\ log'[q].query = 1
                   /\ proc'[q].cmd = "query" /\ proc'[q].cwd = NameOf(q)
              /\ (pc[q] = "awaitBranch" /\ pc'[q] # pc[q] /\ proc[q].ok) =>
                   /\ pc'[q] = "awaitPull" /\ log'[q].pull = 1
                   /\ proc'[q].cmd = "pull" /\ proc'[q].cwd = NameOf(q)
              /\ (pc[q] = "awaitPull" /\ pc'[q] # pc[q] /\ proc[q].ok) =>
                   pc'[q] = "done" /\ IsPulled(resp'[q])
    ]_vars

C11_Witness ==
  \E r, q \in Requests :
    /\ ClonedBefore(r, q)
    /\ log[r].clone = 1
    /\ pc[q] = "done" /\ IsPulled(resp[q])
    /\ log[q].query = 1 /\ log[q].pull = 1 /\ log[q].clone = 0

\* the handler has parsed the body and done nothing else: no probe of a
\* directory, nothing created or removed, no command launched
OnlyParsed(r) ==
  /\ log[r] = [NoLog EXCEPT !.parsed = TRUE]
  /\ proc[r] = NoProc

\* C12: a delivery whose event type has been read and is not push has been
\* answered Skipped (200, success) in that very step: the ref has not been
\* read, so the answer is the same for every ref, no directory has been
\* probed, created or removed and no command has been launched.
C12_NonPushSkipped ==
  \A r \in Requests :
    (req[r].event # Unread /\ req[r].event # "push") =>
      /\ pc[r] = "done"
      /\ IsSkipped(resp[r]) /\ resp[r].body.message = "Event ignored"
      /\ req[r].payload.ref = UnreadRef
      /\ OnlyParsed(r)

C12_Witness ==
  \E r \in Requests :
    /\ pc[r] = "done" /\ req[r].event = "issues"
    /\ IsSkipped(resp[r]) /\ OnlyParsed(r)

\* a ref that is a string (or absent) and is not refs/heads/ followed by a
\* non-empty branch name
NoBranchRef(ref) ==
  /\ ref # UnreadRef
  /\ \/ Len(ref) = 0
     \/ ref[1] # JsonNumber /\ ~(Len(ref) = 2 /\ ref[1] = "refs/heads/")

C14_UnparseableRejected ==
  \A r \in Requests :
    (log[r].parsed /\ (req[r].body = "garbage" \/ NameOf(r) = NoValue)) =>
      /\ pc[r] = "done"
      /\ resp[r].status = 400
      /\ resp[r].body.error =
           (IF req[r].body = "garbage" THEN "Invalid JSON payload"
            ELSE "No repository name found")
      /\ req[r].event = Unread
      /\ OnlyParsed(r)

C14_Witness ==
  \E r, q \in Requests :
    /\ pc[r] = "done" /\ resp[r].status = 400 /\ req[r].body = "garbage"
    /\ pc[q] = "done" /\ resp[q].status = 400 /\ NameOf(q) = NoValue
    /\ OnlyParsed(r) /\ OnlyParsed(q)

\* C15: when the branch query of a request has failed, the request is
\* answered 500 with success false; it has launched no pull, launches none
\* in that step, and the directories are left as they are.
C15_QueryFailureNoPull ==
  [][\A r \in Requests :
       (pc[r] = "awaitBranch" /\ pc'[r] # pc[r] /\ ~proc[r].ok) =>
          /\ pc'[r] = "done"
          /\ resp'[r].status = 500 /\ resp'[r].body.success = "false"
          /\ log[r].pull = 0 /\ log'[r].pull = 0
          /\ proc'[r] = NoProc /\ fs' = fs
    ]_vars

C15_Witness ==
  \E r \in Requests :
    /\ pc[r] = "done" /\ resp[r].status = 500
    /\ resp[r].body.error = "Failed to get current branch"
    /\ log[r].query = 1 /\ log[r].pull = 0 /\ proc[r] = NoProc

CommandFails(r) ==
  /\ pc[r] \in {"awaitClone", "awaitPull"}
  /\ Answers(r)
  /\ ~proc[r].ok

\* C16: the response to a request whose clone or pull command failed says
\* success false and carries the repository name, the failed action
\* (clone or pull), an error message and the stderr text of the command.
C16_FailureRecordSent ==
  [][\A r \in Requests :
       CommandFails(r) =>
          /\ resp'[r].body.success = "false"
          /\ resp'[r].body.repository = NameOf(r)
          /\ resp'[r].body.action = (IF pc[r] = "awaitClone" THEN "clone" ELSE "pull")
          /\ resp'[r].body.error # NoValue
          /\ resp'[r].body.stderr # NoValue
    ]_vars

\* the status the outcome of the answering step calls for
StatusOf(r) ==
  CASE pc[r] = "SignatureCheck" -> 401
    [] pc[r] = "ParsePayload" -> 400
    [] pc[r] = "EventFilter" -> 200
    [] pc[r] = "ExtractBranch" -> 400
    [] pc[r] = "CloneDecision" ->
         IF PushedBranch(r) # DefaultOf(req'[r].payload) THEN 200
         ELSE IF ~config.autoClone THEN 404
         ELSE 400
    [] pc[r] = "awaitBranch" -> IF proc[r].ok THEN 200 ELSE 500
    [] pc[r] \in {"awaitClone", "awaitPull"} -> IF proc[r].ok THEN 200 ELSE 500

\* C17: every response carries the status of its outcome: 401 from the
\* signature check; 400 from the parse, from the branch extraction and for a
\* clone attempt without SSH URL or on an occupied directory; 404 for a clone
\* attempt with autoClone disabled; 500 after a failed clone, pull or branch
\* query; 200 for Cloned, Pulled and every Skipped outcome.  A 200 says
\* success, every other status does not.
C17_StatusByOutcome ==
  [][\A r \in Requests :
       Answers(r) =>
          /\ resp'[r].status = StatusOf(r)
          /\ (resp'[r].status = 200) <=> (resp'[r].body.success = "true")
    ]_vars

C17_Witness ==
  \E r, q \in Requests :
    /\ pc[r] = "done" /\ resp[r].status = 401
    /\ pc[q] = "done" /\ resp[q].status = 500 /\ log[q].pull = 1

\* C18: a handler that has ended has sent a response with a body.
C18_EveryDeliveryAnswered ==
  \A r \in Requests :
    pc[r] \in {"done", "rejected"} =>
      resp[r].status # 0 /\ resp[r].body # NoBody

\* C19: for a directory with .git, what the handler launches and answers is
\* fixed by the repository name, the pushed branch and the result of the
\* branch query (its success and the branch it printed) and, for a pull, by
\* the result of the pull: nothing below mentions the payload's
\* default_branch or ssh_url, nor autoClone or the configured default branch,
\* and it holds for all their values.
C19_MirrorDecisionByBranches ==
  [][\A r \in Requests :
       /\ (pc[r] = "ClassifyRepo" /\ pc'[r] # pc[r]) =>
            /\ pc'[r] = "awaitBranch"
            /\ proc'[r] = [NoProc EXCEPT !.cmd = "query", !.cwd = NameOf(r),
                                         !.phase = "spawned"]
            /\ resp' = resp /\ fs' = fs
       /\ (pc[r] = "awaitBranch" /\ pc'[r] # pc[r]) =>
            /\ fs' = fs
            /\ IF ~proc[r].ok
                 THEN /\ pc'[r] = "done" /\ proc'[r] = NoProc
                      /\ resp'[r].status = 500
                      /\ resp'[r].body.success = "false"
                      /\ resp'[r].body.repository = NameOf(r)
                      /\ resp'[r].body.error = "Failed to get current branch"
               ELSE IF QueriedBranch(r) # PushedBranch(r)
                 THEN /\ pc'[r] = "done" /\ proc'[r] = NoProc
                      /\ IsSkipped(resp'[r])
                      /\ resp'[r].body.message =
                           "Push ignored - local repository is on another branch"
               ELSE /\ pc'[r] = "awaitPull"
                    /\ proc'[r] = [NoProc EXCEPT !.cmd = "pull", !.cwd = NameOf(r),
                                                 !.phase = "spawned"]
                    /\ resp' = resp
       /\ (pc[r] = "awaitPull" /\ pc'[r] # pc[r]) =>
            /\ pc'[r] = "done" /\ proc'[r] = NoProc /\ fs' = fs
            /\ IF proc[r].ok
                 THEN IsPulled(resp'[r]) /\ resp'[r].body.repository = NameOf(r)
                 ELSE resp'[r].status = 500
    ]_vars

C19_Witness ==
  \E r, q \in Requests :
    /\ pc[r] = "done" /\ pc[q] = "done"
    /\ req[r].payload.ref = req[q].payload.ref
    /\ req[r].payload.ssh_url # req[q].payload.ssh_url
    /\ req[r].payload.default_branch # req[q].payload.default_branch
    /\ PushedBranch(r) # config.defaultBranch
    /\ IsPulled(resp[r]) /\ resp[q] = resp[r] /\ log[q] = log[r]

CloneAtWork(n) ==
  \E p \in Requests :
    proc[p].cmd = "clone" /\ proc[p].cwd = n /\ proc[p].phase \in {"init", "cloned"}

\* the directory holds .git with a branch checked out, and the clone command
\* that made it has finished
MirrorExists(n) == HasGit(fs[n]) /\ fs[n].head # NoValue /\ ~CloneAtWork(n)

StepOf(r) == pc'[r] # pc[r] \/ proc'[r] # proc[r]

\* C21: a step of a request, or of a command it launched, changes no
\* directory but the one of the repository the request names, and changes
\* nothing of any other request; what the step reads of the storage is the
\* request's own directory: the classification follows its .git entry, every
\* command runs in it and the branch query prints its checked-out branch.
C21_OtherRepositoryUntouched ==
  [][\A r \in Requests :
       StepOf(r) =>
         /\ \A n \in DOMAIN fs : fs'[n] # fs[n] => n = NameOf(r)
         /\ \A q \in Requests \ {r} :
              /\ pc'[q] = pc[q] /\ proc'[q] = proc[q] /\ req'[q] = req[q]
              /\ resp'[q] = resp[q] /\ log'[q] = log[q]
         /\ (pc[r] = "ClassifyRepo") =>
              pc'[r] = (IF HasGit(fs[NameOf(r)]) THEN "awaitBranch"
                        ELSE "CloneDecision")
         /\ (proc'[r].cmd # "none") => proc'[r].cwd = NameOf(r)
         /\ (proc[r].cmd = "query" /\ proc'[r].phase = "exited" /\ proc'[r].ok) =>
              proc'[r].stdout[1] = fs[NameOf(r)].head
    ]_vars

C21_Witness ==
  \E r, q \in Requests :
    /\ proc[r].cmd = "clone" /\ proc[r].phase = "cloned" /\ proc[r].cwd = "app"
    /\ proc[q].cmd = "clone" /\ proc[q].phase = "exited" /\ ~proc[q].ok
    /\ proc[q].cwd = "lib" /\ fs["lib"].exists /\ fs["lib"].files = {}
    /\ HasGit(fs["app"])

\* the path is a directory strictly inside the repositories root
InsideRoot(path) == path \notin {".", ".."}

\* C22: every probe, directory creation, directory removal and git command
\* of a request targets a path strictly inside the repositories root, and a
\* pull runs only in a directory inside the root.
C22_EveryPathInsideRoot ==
  \A r \in Requests :
    /\ (log[r].probes > 0 \/ log[r].mkdir > 0 \/ log[r].rm > 0) =>
         InsideRoot(getRepositoryPaths(NameOf(r)))
    /\ (proc[r].cmd # "none") => InsideRoot(proc[r].cwd)

\* r decides on the clone of a repository whose directory does not exist,
\* with autoClone enabled and an SSH URL in the payload
FirstPush(r) ==
  /\ pc[r] = "CloneDecision" /\ pc'[r] # pc[r]
  /\ config.autoClone
  /\ req'[r].payload.ssh_url = SshUrl
  /\ ~fs[getRepositoryPaths(NameOf(r))].exists

\* r has created the directory of its repository and runs the clone in it
CreatedAndCloning(r) ==
  /\ pc'[r] = "awaitClone"
  /\ fs'[getRepositoryPaths(NameOf(r))].exists
  /\ log'[r].mkdir = 1 /\ log'[r].clone = 1
  /\ proc'[r].cmd = "clone" /\ proc'[r].phase = "spawned"
  /\ proc'[r].cwd = getRepositoryPaths(NameOf(r))

CarriesUrlSecret == Len(WebhookPath) > 1

\* C24: a request whose URL path carries no correct URL secret is answered
\* 403 before the signature is validated: it is never parsed, never reaches
\* a repository action and gets no other answer.
C24_NoUrlSecretForbidden ==
  \A r \in Requests :
    ~CarriesUrlSecret =>
      \/ pc[r] \in {"idle", "SignatureCheck"}
      \/ pc[r] = "done" /\ resp[r].status = 403 /\ log[r] = NoLog

\* C25: the signature check lets a request through exactly when the claimed
\* signature is "sha256=" followed by the digest of the request's raw body
\* under the configured secret; an absent signature, one of another length
\* and the digest of another body or under another secret are answered 401.
C25_SignatureExact ==
  \A r \in Requests :
    LET expected == Sign(config.githubWebhookSecret, req[r].body)
    IN  /\ pc[r] \in {"SignatureCheck", "ParsePayload", "done"}
        /\ (pc[r] = "ParsePayload") => req[r].signature = expected
        /\ (pc[r] = "done") =>
             (resp[r].status = 401 /\ req[r].signature # expected)

C25_Witness ==
  \E r, q \in Requests :
    /\ config.githubWebhookSecret = "guess"
    /\ pc[r] = "ParsePayload" /\ req[r].signature = Sign("guess", "garbage")
    /\ pc[q] = "done" /\ resp[q].status = 401
    /\ req[q].body = "garbage" /\ req[q].signature = Sign("s3cret", "garbage")

\* the directory holds an entry whose name does not start with a dot
HasVisibleEntry(dir) == \E file \in dir.files : file[1] # "."

\* C27: the outcome of a push for a directory without .git is fixed by the
\* first rule that applies, in this order: pushed branch other than the
\* default -> Skipped; autoClone disabled -> 404; no SSH URL -> 400; the
\* directory exists and holds a visible entry -> 400 conflict; otherwise the
\* directory is created if absent and the clone is launched in it.  Every
\* outcome but the last launches nothing and changes no directory.
C27_FirstApplicableRule ==
  [][\A r \in Requests :
       (/\ pc[r] = "CloneDecision" /\ pc'[r] # pc[r]
        /\ ~HasGit(fs[getRepositoryPaths(NameOf(r))])) =>
         LET path == getRepositoryPaths(NameOf(r))
             payload == req'[r].payload
         IN  IF PushedBranch(r) # DefaultOf(payload)
               THEN /\ pc'[r] = "done" /\ IsSkipped(resp'[r])
                    /\ NothingLaunchedOrChanged(r)
             ELSE IF ~config.autoClone
               THEN /\ pc'[r] = "done" /\ resp'[r].status = 404
                    /\ NothingLaunchedOrChanged(r)
             ELSE IF payload.ssh_url = NoValue
               THEN /\ pc'[r] = "done" /\ resp'[r].status = 400
                    /\ resp'[r].body.error = "No repository SSH URL found in payload"
                    /\ NothingLaunchedOrChanged(r)
             ELSE IF fs[path].exists /\ HasVisibleEntry(fs[path])
               THEN /\ pc'[r] = "done" /\ IsConflict(resp'[r])
                    /\ NothingLaunchedOrChanged(r)
             ELSE /\ pc'[r] = "awaitClone"
                  /\ log'[r].mkdir = (IF fs[path].exists THEN 0 ELSE 1)
                  /\ fs'[path] = [fs[path] EXCEPT !.exists = TRUE]
                  /\ proc'[r].cmd = "clone" /\ proc'[r].cwd = path
                  /\ proc'[r].phase = "spawned" /\ log'[r].clone = 1
    ]_vars

C27_Witness ==
  \E r, q \in Requests :
    /\ ~config.autoClone
    /\ fs["app"].exists /\ fs["app"].files = {Readme}
    /\ pc[r] = "done" /\ resp[r].status = 404
    /\ PushedBranch(r) = DefaultOf(req[r].payload)
    /\ req[r].payload.ssh_url = NoValue
    /\ pc[q] = "done" /\ IsSkipped(resp[q]) /\ log[q].probes > 0
    /\ PushedBranch(q) # DefaultOf(req[q].payload)

\* a clone command launched by a request other than q is running in the
\* directory n and is in one of the given phases
CloneOfOther(q, n, phases) ==
  \E r \in Requests \ {q} :
    /\ pc[r] = "awaitClone" /\ proc[r].cmd = "clone"
    /\ proc[r].cwd = n /\ proc[r].phase \in phases

\* C28: a push to the default branch that reaches the clone decision while
\* another request's clone command has been launched in the same directory
\* and has written nothing yet (the directory exists and is empty) launches
\* its own clone command in that directory, without creating it and without
\* touching the other command.
C28_SecondCloneLaunched ==
  [][\A q \in Requests :
       LET path == getRepositoryPaths(NameOf(q))
       IN  (/\ ClonePrepared(q)
            /\ CloneOfOther(q, path, {"spawned"})
            /\ fs[path].exists /\ fs[path].files = {}) =>
             /\ pc'[q] = "awaitClone"
             /\ proc'[q].cmd = "clone" /\ proc'[q].cwd = path
             /\ proc'[q].phase = "spawned"
             /\ log'[q].mkdir = 0 /\ log'[q].clone = 1
             /\ fs' = fs
             /\ CloneOfOther(q, path, {"spawned"})'
    ]_vars

C28_Witness ==
  \E r, q \in Requests :
    /\ r # q
    /\ proc[r].cmd = "clone" /\ proc[r].phase = "spawned" /\ log[r].mkdir = 1
    /\ proc[q].cmd = "clone" /\ proc[q].phase = "spawned" /\ log[q].mkdir = 0
    /\ proc[r].cwd = proc[q].cwd
    /\ pc[r] = "awaitClone" /\ pc[q] = "awaitClone"
    /\ fs[proc[r].cwd].exists /\ fs[proc[r].cwd].files = {}

\* C29: a delivery classified while another request's clone command is at
\* work in the same directory after .git has appeared is taken for a push to
\* an existing mirror and launches the branch query there; when the query
\* has printed the pushed branch and that command is still at work, the pull
\* is launched in the same directory.
C29_PullAgainstHalfClone ==
  [][\A q \in Requests :
       LET path == getRepositoryPaths(NameOf(q))
       IN  /\ (/\ pc[q] = "ClassifyRepo" /\ pc'[q] # pc[q]
                /\ CloneOfOther(q, path, {"init", "cloned"})
                /\ HasGit(fs[path])) =>
                 /\ pc'[q] = "awaitBranch"
                 /\ proc'[q].cmd = "query" /\ proc'[q].cwd = path
                 /\ proc'[q].phase = "spawned"
           /\ (/\ pc[q] = "awaitBranch" /\ pc'[q] # pc[q]
                /\ proc[q].ok /\ QueriedBranch(q) = PushedBranch(q)
                /\ CloneOfOther(q, path, {"init", "cloned"})) =>
                 /\ pc'[q] = "awaitPull"
                 /\ proc'[q].cmd = "pull" /\ proc'[q].cwd = path
                 /\ proc'[q].phase = "spawned"
                 /\ CloneOfOther(q, path, {"init", "cloned"})'
    ]_vars

C29_Witness ==
  \E r, q \in Requests :
    /\ r # q
    /\ pc[r] = "awaitClone" /\ proc[r].cmd = "clone" /\ proc[r].phase = "cloned"
    /\ pc[q] = "awaitPull" /\ proc[q].cmd = "pull" /\ proc[q].phase = "exited"
    /\ proc[q].ok /\ proc[q].cwd = proc[r].cwd
    /\ log[q].query = 1 /\ log[q].pull = 1 /\ log[q].clone = 0

\* C30: the cleanup of a request whose clone command failed leaves the
\* directory in place while another request's clone command, launched in
\* that directory, has not exited.
C30_CleanupSparesCloneInFlight ==
  [][\A r \in Requests :
       LET path == getRepositoryPaths(NameOf(r))
       IN  (/\ CloneFails(r)
            /\ CloneOfOther(r, path, {"spawned", "init", "cloned"})) =>
             fs'[path].exists
    ]_vars

\* q's handler launches the pull
PullStarts(q) == pc[q] = "awaitBranch" /\ pc'[q] = "awaitPull"

\* C31 as stated: at the moment a request's pull starts, the branch checked
\* out in the mirror is the branch its query printed and the pushed branch.
C31_PullOnCurrentBranch ==
  [][\A q \in Requests :
       PullStarts(q) =>
         /\ fs[proc[q].cwd].head = QueriedBranch(q)
         /\ fs[proc[q].cwd].head = PushedBranch(q)
    ]_vars

\* C31 amended: a pull starts only when the branch printed by the request's
\* query equals the pushed branch; the printed branch is the mirror's branch
\* when the query runs; and the branch checked out in a directory changes
\* only in a step of a clone command at work in that directory.
C31_PullOnObservedBranch ==
  [][/\ \A q \in Requests :
          /\ PullStarts(q) =>
               /\ proc[q].ok /\ QueriedBranch(q) = PushedBranch(q)
               /\ proc'[q].cmd = "pull" /\ proc'[q].cwd = proc[q].cwd
          /\ (/\ proc[q].cmd = "query" /\ proc[q].phase = "spawned"
              /\ proc'[q].phase = "exited" /\ proc'[q].ok) =>
               proc'[q].stdout[1] = fs[proc[q].cwd].head
     /\ \A n \in DOMAIN fs :
          (fs[n].head # NoValue /\ fs'[n].head # fs[n].head) =>
            \E r \in Requests :
              /\ proc[r].cmd = "clone" /\ proc[r].cwd = n
              /\ proc[r].phase = "cloned" /\ proc'[r].phase = "exited"
    ]_vars

C31_Witness ==
  \E r, q \in Requests :
    /\ r # q
    /\ pc[q] = "awaitPull" /\ proc[q].cmd = "pull" /\ proc[q].phase = "spawned"
    /\ PushedBranch(q) = "dev" /\ fs[proc[q].cwd].head = "dev"
    /\ pc[r] = "awaitBranch" /\ proc[r].cmd = "query" /\ proc[r].phase = "exited"
    /\ proc[r].ok /\ QueriedBranch(r) = "dev" /\ proc[r].cwd = proc[q].cwd

\* the command r launched has exited with a failure and r's handler resumes
ResumesOnFailure(r) ==
  /\ proc[r].phase = "exited" /\ ~proc[r].ok
  /\ (pc'[r] # pc[r] \/ proc'[r] # proc[r])

\* C32: within one request the clone, the branch query and the pull are each
\* launched at most once, and the handler that resumes on a failed command
\* answers the request and launches nothing further.
C32_NoRetry ==
  [][\A r \in Requests :
       /\ log'[r].clone <= 1 /\ log'[r].query <= 1 /\ log'[r].pull <= 1
       /\ ResumesOnFailure(r) =>
            /\ pc'[r] = "done" /\ proc'[r] = NoProc
            /\ log'[r].clone = log[r].clone
            /\ log'[r].query = log[r].query
            /\ log'[r].pull = log[r].pull
       /\ (pc[r] = "done" /\ pc'[r] = "done") => proc'[r] = NoProc
    ]_vars

C32_Witness ==
  \E r, q \in Requests :
    /\ pc[r] = "done" /\ resp[r].status = 500
    /\ log[r].query = 1 /\ log[r].pull = 1 /\ log[r].clone = 0
    /\ pc[q] = "done" /\ resp[q].status = 500
    /\ log[q].query = 1 /\ log[q].pull = 0 /\ log[q].clone = 0

\* C33: a step of a handler creates a directory only when it leaves the
\* clone decision to launch the clone in that directory, and removes one
\* only when it resumes on a failed clone command and answers 500; a request
\* answered without having launched a clone (Pulled, pull failure, branch
\* query failure, Skipped, 400, 401, 404) has created and removed nothing.
C33_DirectoriesOnlyOnClonePath ==
  [][\A r \in Requests :
       (pc'[r] # pc[r]) =>
         /\ \A n \in DOMAIN fs :
              /\ (~fs[n].exists /\ fs'[n].exists) =>
                   /\ pc[r] = "CloneDecision" /\ pc'[r] = "awaitClone"
                   /\ proc'[r].cmd = "clone" /\ proc'[r].cwd = n
                   /\ proc'[r].phase = "spawned"
              /\ (fs[n].exists /\ ~fs'[n].exists) =>
                   /\ pc[r] = "awaitClone" /\ pc'[r] = "done"
                   /\ proc[r].cmd = "clone" /\ proc[r].cwd = n /\ ~proc[r].ok
                   /\ resp'[r].status = 500
         /\ (log'[r].mkdir > log[r].mkdir) => pc'[r] = "awaitClone"
         /\ (log'[r].rm > log[r].rm) => (pc[r] = "awaitClone" /\ ~proc[r].ok)
         /\ (pc'[r] = "done" /\ log[r].clone = 0) =>
              /\ fs' = fs /\ log'[r].mkdir = 0 /\ log'[r].rm = 0
    ]_vars

C33_Witness ==
  \E r, q \in Requests :
    /\ pc[r] = "done" /\ resp[r].status = 500
    /\ log[r].clone = 1 /\ log[r].mkdir = 1 /\ log[r].rm = 1
    /\ ~fs[getRepositoryPaths(NameOf(r))].exists
    /\ pc[q] = "done" /\ resp[q].status = 400 /\ log[q].probes > 0
    /\ log[q].clone = 0 /\ log[q].mkdir = 0 /\ log[q].rm = 0

\* r was answered at the clone decision that its push is not to the default
\* branch
SkippedNotCloned(r) ==
  /\ pc[r] = "done" /\ IsSkipped(resp[r])
  /\ resp[r].body.message = "Push ignored - repository not yet cloned"

\* C34: the default branch of the clone decision and of the checkout is the
\* payload's default_branch when the payload declares one and the configured
\* defaultBranch otherwise: a clone command is launched only for a push to
\* that branch and checks that branch out, a Cloned answer names it, and a
\* push is ignored at the clone decision only when it is to another branch.
C34_PayloadBranchFirst ==
  \A r \in Requests :
    /\ (proc[r].cmd = "clone") =>
         /\ proc[r].arg = DefaultOf(req[r].payload)
         /\ PushedBranch(r) = DefaultOf(req[r].payload)
         /\ (proc[r].phase = "exited" /\ proc[r].ok) =>
              fs[proc[r].cwd].head = DefaultOf(req[r].payload)
    /\ (pc[r] = "done" /\ IsCloned(resp[r])) =>
         resp[r].body.branch = DefaultOf(req[r].payload)
    /\ SkippedNotCloned(r) => PushedBranch(r) # DefaultOf(req[r].payload)

C34_Witness ==
  \E r, q \in Requests :
    /\ config.defaultBranch = "main"
    /\ pc[r] = "awaitClone" /\ proc[r].cmd = "clone" /\ proc[r].phase = "exited"
    /\ proc[r].ok /\ req[r].payload.default_branch = "dev"
    /\ fs[proc[r].cwd].head = "dev"
    /\ SkippedNotCloned(q) /\ req[q].payload.default_branch = "dev"
    /\ PushedBranch(q) = "main"

\* C35: a 200 answer has one of three shapes.  Cloned (the request launched
\* the clone): success, repository, action "cloned", branch, output and
\* message, the branch being the default branch and the pushed branch of the
\* request.  Pulled (the request launched the pull): success, repository,
\* action "pulled", output and message, no branch.  Skipped (neither was
\* launched): success and message only.  None carries error or stderr.
C35_SuccessShapes ==
  \A r \in Requests :
    (pc[r] = "done" /\ resp[r].status = 200) =>
      LET body == resp[r].body
      IN  /\ body.success = "true" /\ body.message # NoValue
          /\ body.error = NoValue /\ body.stderr = NoValue
          /\ IF log[r].clone = 1
                THEN /\ body.action = "cloned" /\ body.repository = NameOf(r)
                     /\ body.branch = DefaultOf(req[r].payload)
                     /\ body.branch = PushedBranch(r)
                     /\ body.message = "Repository cloned successfully"
              ELSE IF log[r].pull = 1
                THEN /\ body.action = "pulled" /\ body.repository = NameOf(r)
                     /\ body.branch = NoValue
                     /\ body.message = "Repository updated successfully"
              ELSE /\ body.action = NoValue /\ body.repository = NoValue
                   /\ body.branch = NoValue /\ body.output = <<>>

C35_Witness ==
  \E r, q \in Requests :
    /\ pc[r] = "done" /\ IsCloned(resp[r]) /\ resp[r].body.branch = "dev"
    /\ log[r].clone = 1
    /\ pc[q] = "done" /\ IsPulled(resp[q]) /\ resp[q].body.branch = NoValue
    /\ log[q].pull = 1 /\ PushedBranch(q) = "dev"

\* the set of entries is empty, or every entry's name starts with a dot and
\* none of them is .git
EmptyOrHiddenOnly(files) ==
  \/ files = {}
  \/ \A file \in files : file[1] = "." /\ file # DotGit

\* C36: isDirectoryEmpty answers true exactly for a directory without
\* entries or with dot-entries only, none of them .git.  Where the handler
\* applies it: a clone attempt on an existing directory is refused as a
\* conflict exactly when the function's answer must be false, and the
\* cleanup after a failed clone removes the directory exactly when it must
\* be true.
C36_EmptyMeansNoVisibleEntryNoGit ==
  [][\A r \in Requests :
       LET path == getRepositoryPaths(NameOf(r))
       IN  /\ (ClonePrepared(r) /\ fs[path].exists) =>
                /\ IsConflict(resp'[r]) <=> ~EmptyOrHiddenOnly(fs[path].files)
                /\ (pc'[r] = "awaitClone") <=> EmptyOrHiddenOnly(fs[path].files)
           /\ (CloneFails(r) /\ fs[path].exists) =>
                (~fs'[path].exists <=> EmptyOrHiddenOnly(fs[path].files))
    ]_vars

C36_Witness ==
  \E r, q \in Requests :
    /\ fs["app"].exists /\ fs["app"].files = {DotGit}
    /\ pc[r] = "done" /\ resp[r].status = 500
    /\ log[r].clone = 1 /\ log[r].rm = 0
    /\ pc[q] = "done" /\ IsConflict(resp[q])

====
